---- MODULE Spec2Model ----
(***************************************************************************)
(* cr2fits: the Netpbm reader/writer (class NetpbmFile) and the RAW-to-FITS *)
(* converter (class cr2fits and the command line) of src/cr2fits.py.         *)
(*                                                                         *)
(* Byte strings are sequences of byte values 0..255; a numpy array is a     *)
(* record [shape, data] with data in C (row-major) order.  The interpreter  *)
(* major version (the file runs under Python 2 and, through the hack at     *)
(* lines 508-514, under Python 3) is the variable py2.                      *)
(***************************************************************************)
EXTENDS Integers, Sequences, FiniteSets, TLC

\* ------------------------------------------------------------------ bounds
\* largest image width / height of an enumerated stream
MaxW == 10
MaxH == 2
\* longest enumerated payload, in bytes
MaxPayload == 8

\* ------------------------------------------------------- program constants
\* self._fh.read(4096)
ReadSize == 4096
\* self.maxval < 256 selects dtype 'u1'
U1Limit == 256

\* ------------------------------------------------------------ byte strings
bP7 == <<80, 55>>
bP7_332 == <<80, 55, 32, 51, 51, 50>>
bHEIGHT == <<72, 69, 73, 71, 72, 84>>
bWIDTH == <<87, 73, 68, 84, 72>>
bDEPTH == <<68, 69, 80, 84, 72>>
bMAXVAL == <<77, 65, 88, 86, 65, 76>>
bTUPLTYPE == <<84, 85, 80, 76, 84, 89, 80, 69>>
bENDHDR == <<69, 78, 68, 72, 68, 82, 10>>
bBLACKANDWHITE == <<66, 76, 65, 67, 75, 65, 78, 68, 87, 72, 73, 84, 69>>
bGRAYSCALE == <<71, 82, 65, 89, 83, 67, 65, 76, 69>>
bRGB == <<82, 71, 66>>
bRGB_ALPHA == <<82, 71, 66, 95, 65, 76, 80, 72, 65>>
bP1P2P3 == <<80, 49, 80, 50, 80, 51>>
bP3P6P7_332 == <<80, 51, 80, 54, 80, 55, 32, 51, 51, 50>>

\* regular-expression character classes of a bytes pattern
IsSpace(b) == b \in {9, 10, 11, 12, 13, 32}
IsDigit(b) == b \in 48..57
IsWord(b) == b \in (48..57) \cup (65..90) \cup (97..122) \cup {95}
IsEOL(b) == b \in {10, 13}

StartsWith(s, i, k) ==
    /\ i >= 1
    /\ i + Len(k) - 1 <= Len(s)
    /\ \A j \in 1..Len(k) : s[i + j - 1] = k[j]

\* needle in haystack, for bytes operands
IsSubstring(k, s) == \E i \in 1..(Len(s) - Len(k) + 1) : StartsWith(s, i, k)

\* the greedy runs \s*, \d*, \w*, [\n\r]* and .* from position i: the position
\* after the run
RECURSIVE SkipSpace(_, _)
SkipSpace(s, i) ==
    IF i <= Len(s) /\ IsSpace(s[i]) THEN SkipSpace(s, i + 1) ELSE i

RECURSIVE SkipDigits(_, _)
SkipDigits(s, i) ==
    IF i <= Len(s) /\ IsDigit(s[i]) THEN SkipDigits(s, i + 1) ELSE i

RECURSIVE SkipWord(_, _)
SkipWord(s, i) ==
    IF i <= Len(s) /\ IsWord(s[i]) THEN SkipWord(s, i + 1) ELSE i

RECURSIVE SkipEOLs(_, _)
SkipEOLs(s, i) ==
    IF i <= Len(s) /\ IsEOL(s[i]) THEN SkipEOLs(s, i + 1) ELSE i

\* '.' matches every byte but \n
RECURSIVE SkipDot(_, _)
SkipDot(s, i) ==
    IF i <= Len(s) /\ s[i] # 10 THEN SkipDot(s, i + 1) ELSE i

\* int(b"123")
RECURSIVE ParseInt(_)
ParseInt(s) ==
    IF Len(s) = 0 THEN 0
    ELSE 10 * ParseInt(SubSeq(s, 1, Len(s) - 1)) + (s[Len(s)] - 48)

\* "%i" % n, as bytes
RECURSIVE FormatInt(_)
FormatInt(n) ==
    IF n < 10 THEN <<48 + n>> ELSE FormatInt(n \div 10) \o <<48 + (n % 10)>>

\* ------------------------------------------------------------ NetpbmFile
\* NetpbmFile._types
Types(magicnum) ==
    CASE magicnum = <<80, 49>> -> bBLACKANDWHITE
      [] magicnum = <<80, 50>> -> bGRAYSCALE
      [] magicnum = <<80, 51>> -> bRGB
      [] magicnum = <<80, 52>> -> bBLACKANDWHITE
      [] magicnum = <<80, 53>> -> bGRAYSCALE
      [] magicnum = <<80, 54>> -> bRGB
      [] magicnum = bP7_332 -> bRGB
      [] magicnum = bP7 -> bRGB_ALPHA

\* the instance after the setattr(self, attr, None) loop, and what a caller
\* holds when __init__ raised: no field is set
NoInstance ==
    [ok |-> FALSE, grammar |-> "none", header |-> <<>>, magicnum |-> <<>>,
     width |-> 0, height |-> 0, maxval |-> 0, depth |-> 0, tupltypes |-> <<>>]

\* one (HEIGHT|WIDTH|DEPTH|MAXVAL)\s+\d+ alternative at position i: the
\* positions of the digits, or stop = 0 when the alternative does not match
PamField(data, i, key) ==
    IF StartsWith(data, i, key)
    THEN LET a == i + Len(key)
             b == SkipSpace(data, a)
             c == SkipDigits(data, b)
         IN  IF b > a /\ c > b THEN [from |-> b, stop |-> c]
             ELSE [from |-> 0, stop |-> 0]
    ELSE [from |-> 0, stop |-> 0]

\* the TUPLTYPE\s+\w+ alternative at position i
PamTupltype(data, i) ==
    IF StartsWith(data, i, bTUPLTYPE)
    THEN LET a == i + Len(bTUPLTYPE)
             b == SkipSpace(data, a)
             c == SkipWord(data, b)
         IN  IF b > a /\ c > b THEN [from |-> b, stop |-> c]
             ELSE [from |-> 0, stop |-> 0]
    ELSE [from |-> 0, stop |-> 0]

\* the starred group of the PAM pattern from position i; g holds the text each
\* capturing group matched last (<<>>: the group did not take part, None).
\* Alternatives are tried in the pattern's order.
RECURSIVE PamLoop(_, _, _)
PamLoop(data, i, g) ==
    IF i > Len(data) THEN [pos |-> i, g |-> g]
    ELSE IF IsEOL(data[i]) THEN PamLoop(data, SkipEOLs(data, i), g)
    ELSE IF data[i] = 35 THEN PamLoop(data, SkipDot(data, i + 1), g)
    ELSE LET fh == PamField(data, i, bHEIGHT)
             fw == PamField(data, i, bWIDTH)
             fd == PamField(data, i, bDEPTH)
             fm == PamField(data, i, bMAXVAL)
             ft == PamTupltype(data, i)
         IN  IF fh.stop # 0
             THEN PamLoop(data, fh.stop,
                          [g EXCEPT !.height = SubSeq(data, fh.from, fh.stop - 1)])
             ELSE IF fw.stop # 0
             THEN PamLoop(data, fw.stop,
                          [g EXCEPT !.width = SubSeq(data, fw.from, fw.stop - 1)])
             ELSE IF fd.stop # 0
             THEN PamLoop(data, fd.stop,
                          [g EXCEPT !.depth = SubSeq(data, fd.from, fd.stop - 1)])
             ELSE IF fm.stop # 0
             THEN PamLoop(data, fm.stop,
                          [g EXCEPT !.maxval = SubSeq(data, fm.from, fm.stop - 1)])
             ELSE IF ft.stop # 0 THEN PamLoop(data, ft.stop, g)
             ELSE [pos |-> i, g |-> g]

\* re.findall(b"(TUPLTYPE\s+\w+)", header), each match cut to its second word
RECURSIVE FindTupltypes(_, _)
FindTupltypes(header, i) ==
    IF i > Len(header) THEN <<>>
    ELSE LET ft == PamTupltype(header, i)
         IN  IF ft.stop # 0
             THEN <<SubSeq(header, ft.from, ft.stop - 1)>>
                      \o FindTupltypes(header, ft.stop)
             ELSE FindTupltypes(header, i + 1)

\* a PAM reader that takes ENDHDR as the end of the header without checking
\* that HEIGHT, WIDTH, DEPTH and MAXVAL were all seen
PamHeaderUnchecked(data) ==
    IF ~(StartsWith(data, 1, bP7) /\ SkipEOLs(data, 3) > 3) THEN NoInstance
    ELSE LET none == [height |-> <<>>, width |-> <<>>, depth |-> <<>>,
                      maxval |-> <<>>]
             m == PamLoop(data, SkipEOLs(data, 3), none)
             header == SubSeq(data, 1, m.pos + Len(bENDHDR) - 1)
         IN  IF ~StartsWith(data, m.pos, bENDHDR) THEN NoInstance
             ELSE [ok |-> TRUE, grammar |-> "pam", header |-> header,
                   magicnum |-> bP7,
                   width |-> ParseInt(m.g.width),
                   height |-> ParseInt(m.g.height),
                   maxval |-> ParseInt(m.g.maxval),
                   depth |-> ParseInt(m.g.depth),
                   tupltypes |-> FindTupltypes(header, 1)]

\* NetpbmFile._read_pam_header: the instance fields, or ok = FALSE when the
\* pattern does not match or a group is None (the raised exception)
read_pam_header(data) ==
    IF ~(StartsWith(data, 1, bP7) /\ SkipEOLs(data, 3) > 3) THEN NoInstance
    ELSE LET none == [height |-> <<>>, width |-> <<>>, depth |-> <<>>,
                      maxval |-> <<>>]
             m == PamLoop(data, SkipEOLs(data, 3), none)
             header == SubSeq(data, 1, m.pos + Len(bENDHDR) - 1)
         IN  IF ~StartsWith(data, m.pos, bENDHDR) THEN NoInstance
             ELSE IF \E k \in DOMAIN m.g : m.g[k] = <<>> THEN NoInstance
             ELSE [ok |-> TRUE, grammar |-> "pam", header |-> header,
                   magicnum |-> bP7,
                   width |-> ParseInt(m.g.width),
                   height |-> ParseInt(m.g.height),
                   maxval |-> ParseInt(m.g.maxval),
                   depth |-> ParseInt(m.g.depth),
                   tupltypes |-> FindTupltypes(header, 1)]

\* #.*[\r\n] at the '#' of position i: the position after it, 0 for no match
\* (the greedy .* stops before the first \n; with no \n left it gives back
\* to the last \r)
CommentEnd(s, i) ==
    LET e == SkipDot(s, i + 1)
        crs == {j \in (i + 1)..Len(s) : s[j] = 13}
    IN  IF e <= Len(s) THEN e + 1
        ELSE IF crs # {} THEN (CHOOSE j \in crs : \A k \in crs : k <= j) + 1
        ELSE 0

\* (?:#.*[\r\n])* from position i
RECURSIVE SkipComments(_, _)
SkipComments(s, i) ==
    IF i <= Len(s) /\ s[i] = 35 /\ CommentEnd(s, i) # 0
    THEN SkipComments(s, CommentEnd(s, i))
    ELSE i

\* (?:\s*#.*[\r\n]\s)* from position i
RECURSIVE SkipTrailing(_, _)
SkipTrailing(s, i) ==
    LET q == SkipSpace(s, i)
        e == CommentEnd(s, q)
    IN  IF q <= Len(s) /\ s[q] = 35 /\ e # 0 /\ e <= Len(s) /\ IsSpace(s[e])
        THEN SkipTrailing(s, e + 1)
        ELSE i

\* \s*(\d+) from position i
PnmNumber(s, i) ==
    LET b == SkipSpace(s, i)
        c == SkipDigits(s, b)
    IN  IF c > b THEN [from |-> b, stop |-> c] ELSE [from |-> 0, stop |-> 0]

\* \s+(?:#.*[\r\n])* from position i: the position after it, 0 for no match
PnmGap(s, i) ==
    IF i = 0 THEN 0
    ELSE LET a == SkipSpace(s, i)
         IN  IF a > i THEN SkipComments(s, a) ELSE 0

\* (P[123456]|P7 332) at position 1: the position after it, 0 for no match
PnmMagic(data) ==
    IF Len(data) >= 2 /\ data[1] = 80 /\ data[2] \in 49..54 THEN 3
    ELSE IF StartsWith(data, 1, bP7_332) THEN Len(bP7_332) + 1
    ELSE 0

\* NetpbmFile._read_pnm_header
read_pnm_header(data) ==
    LET bpm == data[2] \in {49, 52}
        m == PnmMagic(data)
        g1 == PnmGap(data, m)
        n1 == IF g1 = 0 THEN [from |-> 0, stop |-> 0] ELSE PnmNumber(data, g1)
        g2 == PnmGap(data, n1.stop)
        n2 == IF g2 = 0 THEN [from |-> 0, stop |-> 0] ELSE PnmNumber(data, g2)
        g3 == IF bpm THEN 0 ELSE PnmGap(data, n2.stop)
        n3 == IF g3 = 0 THEN [from |-> 0, stop |-> 0] ELSE PnmNumber(data, g3)
        last == IF bpm THEN n2 ELSE n3
        stop == last.stop
        magicnum == SubSeq(data, 1, m - 1)
    IN  IF m = 0 \/ stop = 0 \/ stop > Len(data) THEN NoInstance
        ELSE IF ~IsSpace(data[stop]) THEN NoInstance
        ELSE [ok |-> TRUE, grammar |-> "pnm",
              header |-> SubSeq(data, 1, SkipTrailing(data, stop + 1) - 1),
              magicnum |-> magicnum,
              width |-> ParseInt(SubSeq(data, n1.from, n1.stop - 1)),
              height |-> ParseInt(SubSeq(data, n2.from, n2.stop - 1)),
              maxval |-> IF bpm THEN 1
                         ELSE ParseInt(SubSeq(data, n3.from, n3.stop - 1)),
              depth |-> IF IsSubstring(magicnum, bP3P6P7_332) THEN 3 ELSE 1,
              tupltypes |-> <<Types(magicnum)>>]

\* NetpbmFile.__init__ on an open file holding the bytes fh
NetpbmFile(fh) ==
    LET data == SubSeq(fh, 1, IF Len(fh) < ReadSize THEN Len(fh) ELSE ReadSize)
    IN  IF Len(data) < 7 \/ ~(48 < data[2] /\ data[2] < 56) THEN NoInstance
        ELSE LET pam == read_pam_header(data)
             IN  IF pam.ok THEN pam
                 ELSE LET pnm == read_pnm_header(data)
                      IN  IF pnm.ok THEN pnm ELSE NoInstance

\* ----------------------------------------------------------- numpy arrays
\* what the caller holds when the call raised
NoArray == [ok |-> FALSE, shape |-> <<>>, data |-> <<>>, dtype |-> "none"]

RECURSIVE Prod(_)
Prod(shape) == IF Len(shape) = 0 THEN 1 ELSE shape[1] * Prod(Tail(shape))

Pow2(n) == CASE n = 0 -> 1 [] n = 1 -> 2 [] n = 2 -> 4 [] n = 3 -> 8
             [] n = 4 -> 16 [] n = 5 -> 32 [] n = 6 -> 64 [] n = 7 -> 128

\* np.dtype(dtype).itemsize
ItemSize(dtype) == IF dtype = "u1" THEN 1 ELSE 2

\* np.frombuffer(buf, dtype): one value per item, '>u2' big-endian; a buffer
\* that is no multiple of the item size raises
FromBuffer(buf, dtype) ==
    IF dtype = "u1"
    THEN [ok |-> TRUE, shape |-> <<Len(buf)>>, data |-> buf, dtype |-> dtype]
    ELSE IF Len(buf) % 2 # 0 THEN NoArray
    ELSE [ok |-> TRUE, shape |-> <<Len(buf) \div 2>>,
          data |-> [k \in 1..(Len(buf) \div 2) |->
                       256 * buf[2 * k - 1] + buf[2 * k]],
          dtype |-> dtype]

\* a.reshape([-1, h, w, d]): the leading dimension is inferred; it cannot be
\* when h*w*d is 0 or does not divide the size
ReshapeFrames(a, h, w, d) ==
    IF ~a.ok THEN NoArray
    ELSE IF h * w * d = 0 THEN NoArray
    ELSE IF Len(a.data) % (h * w * d) # 0 THEN NoArray
    ELSE [a EXCEPT !.shape = <<Len(a.data) \div (h * w * d), h, w, d>>]

\* a.reshape(shape) for a shape without -1
Reshape(a, shape) ==
    IF ~a.ok THEN NoArray
    ELSE IF Prod(shape) # Len(a.data) THEN NoArray
    ELSE [a EXCEPT !.shape = shape]

\* np.unpackbits(a, axis=-2) of a 4-d uint8 array: every byte along the third
\* axis becomes 8 samples, most significant bit first
Unpackbits(a) ==
    IF ~a.ok THEN NoArray
    ELSE LET n == a.shape[1]
             h == a.shape[2]
             w8 == a.shape[3]
             d == a.shape[4]
             w == 8 * w8
         IN  [ok |-> TRUE, shape |-> <<n, h, w, d>>, dtype |-> "u1",
              data |-> [k \in 1..(n * h * w * d) |->
                  LET ch == (k - 1) % d
                      c == ((k - 1) \div d) % w
                      row == (k - 1) \div (d * w)
                      byte == a.data[(row * w8 + c \div 8) * d + ch + 1]
                  IN  (byte \div Pow2(7 - (c % 8))) % 2]]

\* a[:, :, :width, :] of a 4-d array
SliceWidth(a, width) ==
    IF ~a.ok THEN NoArray
    ELSE LET n == a.shape[1]
             h == a.shape[2]
             w0 == a.shape[3]
             d == a.shape[4]
             w == IF width < w0 THEN width ELSE w0
         IN  [a EXCEPT !.shape = <<n, h, w, d>>,
                       !.data = [k \in 1..(n * h * w * d) |->
                           LET ch == (k - 1) % d
                               c == ((k - 1) \div d) % w
                               row == (k - 1) \div (d * w)
                           IN  a.data[(row * w0 + c) * d + ch + 1]]]

\* rgb332 = np.array(list(np.ndindex(8, 8, 4)), np.uint8)
\* rgb332 *= np.array([36, 36, 85], np.uint8)        (uint8 arithmetic)
Rgb332(b) ==
    <<((b \div 32) * 36) % 256, (((b \div 4) % 8) * 36) % 256,
      ((b % 4) * 85) % 256>>

\* np.take(rgb332, a, axis=0): an index past the table raises
TakeRgb332(a) ==
    IF ~a.ok THEN NoArray
    ELSE IF \E k \in 1..Len(a.data) : a.data[k] > 255 THEN NoArray
    ELSE [ok |-> TRUE, shape |-> a.shape \o <<3>>, dtype |-> "u1",
          data |-> [k \in 1..(3 * Len(a.data)) |->
                       Rgb332(a.data[((k - 1) \div 3) + 1])[((k - 1) % 3) + 1]]]

\* bytes.split(): the maximal runs of non-whitespace bytes
RECURSIVE SkipToken(_, _)
SkipToken(s, i) ==
    IF i <= Len(s) /\ ~IsSpace(s[i]) THEN SkipToken(s, i + 1) ELSE i

RECURSIVE Split(_, _)
Split(s, i) ==
    LET b == SkipSpace(s, i)
        c == SkipToken(s, b)
    IN  IF b > Len(s) THEN <<>> ELSE <<SubSeq(s, b, c - 1)>> \o Split(s, c)

\* math.ceil(self.width / 8): '/' is true division under Python 3 and floor
\* division of two ints under Python 2
CeilWidth8(width, p2) ==
    IF p2 THEN width \div 8 ELSE (width + 7) \div 8

\* NetpbmFile._read_data on the file bytes fh
read_data(nf, fh, p2) ==
    LET payload == SubSeq(fh, Len(nf.header) + 1, Len(fh))
        dtype == IF nf.maxval < U1Limit THEN "u1" ELSE ">u2"
        depth == IF nf.magicnum = bP7_332 THEN 1 ELSE nf.depth
        size == nf.height * nf.width * depth
        tokens == Split(payload, 1)
        first == SubSeq(tokens, 1, IF Len(tokens) < size THEN Len(tokens) ELSE size)
        ascii == IF \E t \in 1..Len(first) :
                       \E j \in 1..Len(first[t]) : ~IsDigit(first[t][j])
                 THEN NoArray
                 ELSE [ok |-> TRUE, shape |-> <<Len(first)>>, dtype |-> dtype,
                       data |-> [t \in 1..Len(first) |->
                           ParseInt(first[t]) % (IF dtype = "u1" THEN 256 ELSE 65536)]]
        frames ==
            IF IsSubstring(nf.magicnum, bP1P2P3)
            THEN ReshapeFrames(ascii, nf.height, nf.width, depth)
            ELSE IF nf.maxval = 1
            THEN SliceWidth(
                     Unpackbits(ReshapeFrames(FromBuffer(payload, dtype),
                                              nf.height,
                                              CeilWidth8(nf.width, p2), depth)),
                     nf.width)
            ELSE ReshapeFrames(
                     FromBuffer(SubSeq(payload, 1,
                                       IF Len(payload) < size * ItemSize(dtype)
                                       THEN Len(payload)
                                       ELSE size * ItemSize(dtype)), dtype),
                     nf.height, nf.width, depth)
        one == IF frames.ok /\ frames.shape[1] < 2
               THEN Reshape(frames, Tail(frames.shape))
               ELSE frames
        flat == IF one.ok /\ one.shape[Len(one.shape)] < 2
                THEN Reshape(one, SubSeq(one.shape, 1, Len(one.shape) - 1))
                ELSE one
    IN  IF nf.magicnum = bP7_332 THEN TakeRgb332(flat) ELSE flat

\* np.packbits(a, axis=-1): 8 samples of the last axis per byte, most
\* significant bit first, nonzero is 1, the last byte zero-padded
Packbits(a) ==
    LET len == a.shape[Len(a.shape)]
        len8 == (len + 7) \div 8
        rows == Len(a.data) \div len
        bit(row, c) == IF c < len /\ a.data[row * len + c + 1] # 0 THEN 1 ELSE 0
    IN  [ok |-> TRUE, dtype |-> "u1",
         shape |-> SubSeq(a.shape, 1, Len(a.shape) - 1) \o <<len8>>,
         data |-> [k \in 1..(rows * len8) |->
             LET row == (k - 1) \div len8
                 c0 == 8 * ((k - 1) % len8)
             IN  128 * bit(row, c0) + 64 * bit(row, c0 + 1)
                   + 32 * bit(row, c0 + 2) + 16 * bit(row, c0 + 3)
                   + 8 * bit(row, c0 + 4) + 4 * bit(row, c0 + 5)
                   + 2 * bit(row, c0 + 6) + bit(row, c0 + 7)]]

\* a.tofile(fh): the items in C order, each in the array's byte order
ToFile(a) ==
    IF a.dtype = "u1" THEN a.data
    ELSE [k \in 1..(2 * Len(a.data)) |->
             IF k % 2 = 1 THEN a.data[(k + 1) \div 2] \div 256
             ELSE a.data[k \div 2] % 256]

\* "\n".join(parts)
RECURSIVE JoinLines(_)
JoinLines(parts) ==
    IF Len(parts) = 0 THEN <<>>
    ELSE IF Len(parts) = 1 THEN parts[1]
    ELSE parts[1] \o <<10>> \o JoinLines(Tail(parts))

\* NetpbmFile._header
Header(nf, pam) ==
    IF pam \/ nf.magicnum = bP7
    THEN JoinLines(<<bP7,
                     bHEIGHT \o <<32>> \o FormatInt(nf.height),
                     bWIDTH \o <<32>> \o FormatInt(nf.width),
                     bDEPTH \o <<32>> \o FormatInt(nf.depth),
                     bMAXVAL \o <<32>> \o FormatInt(nf.maxval),
                     JoinLines([i \in 1..Len(nf.tupltypes) |->
                                   bTUPLTYPE \o <<32>> \o nf.tupltypes[i]]),
                     bENDHDR>>)
    ELSE IF nf.maxval = 1
    THEN <<80, 52, 32>> \o FormatInt(nf.width) \o <<32>>
             \o FormatInt(nf.height) \o <<10>>
    ELSE IF nf.depth = 1
    THEN <<80, 53, 32>> \o FormatInt(nf.width) \o <<32>>
             \o FormatInt(nf.height) \o <<32>> \o FormatInt(nf.maxval) \o <<10>>
    ELSE <<80, 54, 32>> \o FormatInt(nf.width) \o <<32>>
             \o FormatInt(nf.height) \o <<32>> \o FormatInt(nf.maxval) \o <<10>>

\* NetpbmFile._tofile: what the written file holds; when asarray raises, the
\* header has been written already
tofile(nf, fh, pam, p2) ==
    LET data == read_data(nf, fh, p2)
    IN  IF ~data.ok THEN [ok |-> FALSE, bytes |-> Header(nf, pam)]
        ELSE [ok |-> TRUE,
              bytes |-> Header(nf, pam)
                  \o ToFile(IF nf.maxval = 1 THEN Packbits(data) ELSE data)]

\* ----------------------------------------------------------------- cr2fits
\* cr2fits.get_color: image[:, :, index], for index >= 0.  The third axis is
\* dropped; fewer than three axes, or an index past the third axis, raise
\* IndexError
get_color(image, index) ==
    IF ~image.ok THEN NoArray
    ELSE IF Len(image.shape) < 3 THEN NoArray
    ELSE IF index >= image.shape[3] THEN NoArray
    ELSE LET inner == Prod(SubSeq(image.shape, 4, Len(image.shape)))
             outer == image.shape[1] * image.shape[2]
         IN  [image EXCEPT
                 !.shape = SubSeq(image.shape, 1, 2)
                               \o SubSeq(image.shape, 4, Len(image.shape)),
                 !.data = [k \in 1..(outer * inner) |->
                     image.data[(((k - 1) \div inner) * image.shape[3] + index)
                                    * inner + ((k - 1) % inner) + 1]]]

\* cr2fits.colors, as text
colors(k) ==
    CASE k = 0 -> <<82, 101, 100>>
      [] k = 1 -> <<71, 114, 101, 101, 110>>
      [] k = 2 -> <<66, 108, 117, 101>>
      [] k = 3 -> <<82, 97, 119>>

\* the keys of colors
ColorKeys == 0..3

\* a subprocess that subprocess.call-style code would run: the exit status is
\* returned to the caller and never raised
call(returncode, output) == [ok |-> TRUE, out |-> output]

\* subprocess.check_output: the bytes the child wrote, or CalledProcessError
\* when it exited nonzero
check_output(returncode, output) == [ok |-> returncode = 0, out |-> output]

\* the labels read_exif searches for in the output of dcraw -i -v; a label
\* that is absent leaves m = None, and m.group(0) raises AttributeError
ExifLabels ==
    {"Timestamp:", "Shutter:", "Aperture: f/", "ISO speed:", "Focal length: ",
     "Filename:", "Camera:"}

\* str.split('.')
RECURSIVE SplitDot(_)
SplitDot(s) ==
    IF \A i \in 1..Len(s) : s[i] # 46 THEN <<s>>
    ELSE LET i == CHOOSE i \in 1..Len(s) :
                      s[i] = 46 /\ \A j \in 1..(i - 1) : s[j] # 46
         IN  <<SubSeq(s, 1, i - 1)>> \o SplitDot(SubSeq(s, i + 1, Len(s)))

\* "".join(parts)
RECURSIVE Join(_)
Join(parts) ==
    IF parts = <<>> THEN <<>> ELSE Head(parts) \o Join(Tail(parts))

\* _generate_destination, lines 444-447
ChannelName(colorindex) ==
    IF colorindex = 3 THEN <<82, 65, 87>> ELSE <<colors(colorindex)[1]>>

\* _generate_destination, line 449
Stem(filename) ==
    LET parts == SplitDot(filename)
    IN  Join(SubSeq(parts, 1, Len(parts) - 1))

\* ".fits"
bFits == <<46, 102, 105, 116, 115>>

\* _generate_destination, line 451
BaseName(filename, colorindex) ==
    Stem(filename) \o <<45>> \o ChannelName(colorindex) \o bFits

\* _generate_destination, line 455
Numbered(filename, colorindex, i) ==
    Stem(filename) \o <<45>> \o ChannelName(colorindex) \o <<45>>
      \o FormatInt(i) \o bFits

\* the stop of the range of line 453, which is 9000000 in the source, scaled
\* down so that a directory can hold every candidate
RetryStop == 4

\* the loop of lines 453-458 from i on: the first name that is no file, and
\* the last name tried when the range runs out
RECURSIVE RetryLoop(_, _, _, _)
RetryLoop(filename, colorindex, i, files) ==
    LET writename == Numbered(filename, colorindex, i)
    IN  IF writename \notin files THEN writename
        ELSE IF i + 1 < RetryStop
             THEN RetryLoop(filename, colorindex, i + 1, files)
        ELSE writename

\* cr2fits._generate_destination, with os.path.isfile answering from files
generate_destination(filename, colorindex, files) ==
    LET writename == BaseName(filename, colorindex)
    IN  IF writename \in files /\ 1 < RetryStop
        THEN RetryLoop(filename, colorindex, 1, files)
        ELSE writename

\* int(s) on a command-line argument: an optional sign and decimal digits, or
\* ValueError
IntArg(s) ==
    LET signed == Len(s) > 0 /\ s[1] \in {43, 45}
        digits == IF signed THEN Tail(s) ELSE s
    IN  IF Len(digits) = 0 \/ \E i \in 1..Len(digits) : ~IsDigit(digits[i])
        THEN [ok |-> FALSE, value |-> 0]
        ELSE [ok |-> TRUE,
              value |-> IF signed /\ s[1] = 45 THEN 0 - ParseInt(digits)
                        ELSE ParseInt(digits)]

\* the try block of lines 493-495: sys.argv[1] and int(sys.argv[2]), ok = FALSE
\* for the IndexError or ValueError the bare except catches
ParseArgs(args) ==
    IF Len(args) < 3 THEN [ok |-> FALSE, cr2FileName |-> <<>>, colorInput |-> 0]
    ELSE [ok |-> IntArg(args[3]).ok, cr2FileName |-> args[2],
          colorInput |-> IntArg(args[3]).value]

\* lines 516-517
colorState(k) == \E i \in ColorKeys : i = k

\* the HDU before create_fits has run
NoHdu == [data |-> NoArray, FILTER |-> <<>>, fields |-> {}]

\* ------------------------------------------------------ enumerated streams
Widths == {1, 2, 8, MaxW}
Heights == 1..MaxH
Maxvals == {1, 255, 65535}

\* "<magic> <w> <h>[ <maxval>]\n", or the same with the fields on lines of
\* their own after a comment line
ClassicHeader(magic, w, h, m, commented) ==
    LET bpm == magic[2] \in {49, 52}
        sep == IF commented THEN <<10>> ELSE <<32>>
    IN  magic \o sep \o (IF commented THEN <<35, 32, 99, 10>> ELSE <<>>)
          \o FormatInt(w) \o sep \o FormatInt(h)
          \o (IF bpm THEN <<>> ELSE sep \o FormatInt(m)) \o <<10>>

\* headers of the binary variants the classic grammar reads
ClassicHeaders ==
    {ClassicHeader(<<80, 52>>, w, h, 1, c) : w \in Widths, h \in Heights,
                                               c \in BOOLEAN}
      \cup {ClassicHeader(magic, w, h, m, c) :
                magic \in {<<80, 53>>, <<80, 54>>, bP7_332},
                w \in Widths, h \in Heights, m \in Maxvals, c \in BOOLEAN}

\* headers of the ASCII variants P1, P2, P3, and of no variant: P8, P0, X5, p5
OtherHeaders ==
    {ClassicHeader(magic, w, h, 255, FALSE) :
         magic \in {<<80, 49>>, <<80, 50>>, <<80, 51>>,
                    <<80, 56>>, <<80, 48>>, <<88, 53>>, <<112, 53>>},
         w \in Widths, h \in Heights}

\* a PAM header with the field lines of drop left out
PamHeader(w, h, d, m, drop) ==
    bP7 \o <<10>>
      \o (IF "HEIGHT" \in drop THEN <<>>
          ELSE bHEIGHT \o <<32>> \o FormatInt(h) \o <<10>>)
      \o (IF "WIDTH" \in drop THEN <<>>
          ELSE bWIDTH \o <<32>> \o FormatInt(w) \o <<10>>)
      \o (IF "DEPTH" \in drop THEN <<>>
          ELSE bDEPTH \o <<32>> \o FormatInt(d) \o <<10>>)
      \o (IF "MAXVAL" \in drop THEN <<>>
          ELSE bMAXVAL \o <<32>> \o FormatInt(m) \o <<10>>)
      \o (IF d = 1 THEN <<>>
          ELSE bTUPLTYPE \o <<32>> \o (IF d = 3 THEN bRGB ELSE bRGB_ALPHA)
                   \o <<10>>)
      \o bENDHDR

PamHeaders ==
    {PamHeader(w, h, d, m, {}) :
         w \in Widths, h \in Heights, d \in {1, 3, 4}, m \in Maxvals}

\* PAM headers that lack one of the four mandatory fields
PartialPamHeaders ==
    {PamHeader(w, h, d, m, {f}) :
         w \in Widths, h \in Heights, d \in {1, 3, 4}, m \in Maxvals,
         f \in {"HEIGHT", "WIDTH", "DEPTH", "MAXVAL"}}

\* payload bytes: a run of n bytes of the cycle, starting at offset p
PayloadCycle == <<170, 128, 224, 3, 255, 0>>
Payload(p, n) ==
    [k \in 1..n |-> PayloadCycle[((k - 1 + p) % Len(PayloadCycle)) + 1]]

Payloads == {Payload(p, n) : p \in {0, 2}, n \in 0..MaxPayload}

\* headers whose max-value field is 0 or 65536
BadMaxvals == {0, 65536}
BadMaxvalHeaders ==
    {ClassicHeader(magic, w, 1, m, FALSE) :
         magic \in {<<80, 53>>, <<80, 54>>}, w \in {1, 2}, m \in BadMaxvals}
      \cup {PamHeader(w, 1, d, m, {}) :
                w \in {1, 2}, d \in {1, 3}, m \in BadMaxvals}

\* payloads that begin like a comment line or with whitespace:
\* "#\n \xaa", " #\n ", "\n\n\xaa\x80", "#\xaa\x80\xe0"
HeaderLikePayloads ==
    {<<35, 10, 32, 170>>, <<32, 35, 10, 32>>, <<10, 10, 170, 128>>,
     <<35, 170, 128, 224>>}

\* ASCII streams: P2 of two samples with "1 2\n", "1", "1 2 3" and no token,
\* P1 of two samples with "1 0\n", P3 of one pixel with "1 2 3"
AsciiStreams ==
    {ClassicHeader(<<80, 50>>, 2, 1, 255, FALSE) \o pl :
         pl \in {<<49, 32, 50, 10>>, <<49>>, <<49, 32, 50, 32, 51>>, <<>>}}
      \cup {ClassicHeader(<<80, 49>>, 2, 1, 1, FALSE) \o <<49, 32, 48, 10>>,
             ClassicHeader(<<80, 51>>, 1, 1, 255, FALSE)
                 \o <<49, 32, 50, 32, 51>>}

Streams ==
    {hd \o pl : hd \in ClassicHeaders \cup PamHeaders \cup BadMaxvalHeaders,
                 pl \in Payloads}
      \cup {ClassicHeader(magic, w, h, 255, FALSE) \o pl :
                magic \in {<<80, 52>>, <<80, 53>>, <<80, 54>>},
                w \in {1, 2}, h \in Heights, pl \in HeaderLikePayloads}
      \cup AsciiStreams
      \cup {hd \o Payload(0, h) : hd \in OtherHeaders \cup PartialPamHeaders,
                                  h \in Heights}
      \cup {SubSeq(hd, 1, 6) : hd \in ClassicHeaders}

\* ------------------------------------------------------------------ state
VARIABLES
    py2,    \* TRUE when the interpreter is Python 2, FALSE for Python 3
    fh,     \* the bytes of the input file
    pc,     \* where the caller is
    nf,     \* the NetpbmFile instance read from fh
    im,     \* the array asarray() returned
    out,    \* the bytes of the file write() wrote
    nf2,    \* the NetpbmFile instance read back from out
    im2,    \* its array
    index,  \* the index given to get_color
    ch,     \* the array get_color returned
    argv,        \* sys.argv
    filename,    \* cr2fits.filename
    colorInput,  \* cr2fits.colorInput
    stdout,      \* what the script printed: "", "usage" or "ERROR"
    status,      \* the exit status of the script, once it has ended
    returncode,  \* the exit status of the dcraw run of read_cr2
    cr2header,   \* the labels in the output of dcraw -i -v
    hdu,         \* the HDU create_fits built
    disk,        \* the names os.path.isfile answers True for
    dest,        \* the name _generate_destination returned
    log,         \* the steps of convert() that have started, in order
    written,     \* the names of the files the script has created
    named,       \* TRUE when NetpbmFile is given a filename, FALSE for an
                 \* open file object
    handle       \* the file NetpbmFile opened itself: "none", "open", "closed"

netVars == <<out, nf2, im2, index>>

fileVars == <<named, handle>>

convVars ==
    <<argv, filename, colorInput, stdout, status, returncode, cr2header, hdu,
      disk, dest, log, written>>

vars == <<py2, fh, pc, nf, im, ch, netVars, convVars, fileVars>>

\* largest channel index handed to get_color
MaxIndex == 5

Init ==
    /\ fh \in Streams
    /\ py2 \in BOOLEAN
    /\ pc = "start"
    /\ nf = NoInstance
    /\ im = NoArray
    /\ out = <<>>
    /\ nf2 = NoInstance
    /\ im2 = NoArray
    /\ index = 0
    /\ ch = NoArray
    /\ argv = <<>>
    /\ filename = <<>>
    /\ colorInput = 0
    /\ stdout = ""
    /\ status = 0
    /\ returncode = 0
    /\ cr2header = {}
    /\ hdu = NoHdu
    /\ disk = {}
    /\ dest = <<>>
    /\ log = <<>>
    /\ written = {}
    /\ named = FALSE
    /\ handle = "none"

\* nf = NetpbmFile(fh); a ValueError ends the run
Construct ==
    /\ pc = "start"
    /\ nf' = NetpbmFile(fh)
    /\ pc' = IF nf'.ok THEN "open" ELSE "ValueError"
    /\ UNCHANGED <<py2, fh, im, out, nf2, im2, index, ch>>
    /\ UNCHANGED convVars
    /\ UNCHANGED fileVars

\* im = nf.asarray()
AsArray ==
    /\ pc = "open"
    /\ im' = read_data(nf, fh, py2)
    /\ pc' = IF im'.ok THEN "decoded" ELSE "Error"
    /\ UNCHANGED <<py2, fh, nf, out, nf2, im2, index, ch>>
    /\ UNCHANGED convVars
    /\ UNCHANGED fileVars

\* nf.write(out, pam)
Write ==
    /\ pc = "decoded"
    /\ \E pam \in BOOLEAN : out' = tofile(nf, fh, pam, py2).bytes
    /\ pc' = "written"
    /\ UNCHANGED <<py2, fh, nf, im, nf2, im2, index, ch>>
    /\ UNCHANGED convVars
    /\ UNCHANGED fileVars

\* im2 = NetpbmFile(out).asarray()
ReadBack ==
    /\ pc = "written"
    /\ nf2' = NetpbmFile(out)
    /\ im2' = IF nf2'.ok THEN read_data(nf2', out, py2) ELSE NoArray
    /\ pc' = "readback"
    /\ UNCHANGED <<py2, fh, nf, im, out, index, ch>>
    /\ UNCHANGED convVars
    /\ UNCHANGED fileVars

\* ch = get_color(im, i)
GetColor ==
    /\ pc = "decoded"
    /\ \E i \in 0..MaxIndex :
          /\ index' = i
          /\ ch' = get_color(im, i)
    /\ pc' = IF ch'.ok THEN "extracted" ELSE "IndexError"
    /\ UNCHANGED <<py2, fh, nf, im, out, nf2, im2>>
    /\ UNCHANGED convVars
    /\ UNCHANGED fileVars

Next == Construct \/ AsArray \/ Write \/ ReadBack \/ GetColor

Spec == Init /\ [][Next]_vars

\* ------------------------------------------------ the script and convert()
\* "cr2fits.py"
bScript == <<99, 114, 50, 102, 105, 116, 115, 46, 112, 121>>

\* input names: a.cr2, a.b.cr2, ab, ./a.cr2
Filenames ==
    {<<97, 46, 99, 114, 50>>, <<97, 46, 98, 46, 99, 114, 50>>, <<97, 98>>,
     <<46, 47, 97, 46, 99, 114, 50>>}

\* second arguments: 0, 1, 2, 3, 4, -1, x
ColorArgs == {<<48>>, <<49>>, <<50>>, <<51>>, <<52>>, <<45, 49>>, <<120>>}

Argvs ==
    {<<bScript>>}
      \cup {<<bScript, f>> : f \in Filenames}
      \cup {<<bScript, f, c>> : f \in Filenames, c \in ColorArgs}

\* what dcraw may write to its standard output: a 16-bit P6 and a 16-bit P5
\* of one pixel, an 8-bit P6 of two pixels, a P6 of maxval 1 with two pixels
\* of payload, a P6 cut short, and nothing
DcrawStreams ==
    {ClassicHeader(<<80, 54>>, 1, 1, 65535, FALSE) \o Payload(0, 6),
     ClassicHeader(<<80, 53>>, 1, 1, 65535, FALSE) \o Payload(0, 2),
     ClassicHeader(<<80, 54>>, 2, 1, 255, FALSE) \o Payload(0, 6),
     ClassicHeader(<<80, 54>>, 1, 1, 1, FALSE) \o Payload(0, 6),
     ClassicHeader(<<80, 54>>, 1, 1, 65535, FALSE) \o Payload(0, 3),
     <<>>}

\* what dcraw -i -v may print: every label, every label but one, nothing
ExifOutputs == {ExifLabels, ExifLabels \ {"Camera:"}, {}}

\* the files present before the script runs: any of the names
\* _generate_destination can ask for, for one channel
Disks(f) ==
    {{IF i = 0 THEN BaseName(f, c) ELSE Numbered(f, c, i) : i \in S} :
        c \in ColorKeys, S \in SUBSET (0..(RetryStop - 1))}

Steps ==
    <<"read_cr2", "read_exif", "read_pbm", "get_color", "create_fits",
      "_generate_destination", "write_fits">>

InitConvert ==
    /\ argv \in Argvs
    /\ disk \in Disks(IF Len(argv) >= 2 THEN argv[2] ELSE <<>>)
    /\ py2 \in BOOLEAN
    /\ pc = "main"
    /\ fh = <<>>
    /\ nf = NoInstance
    /\ im = NoArray
    /\ ch = NoArray
    /\ out = <<>>
    /\ nf2 = NoInstance
    /\ im2 = NoArray
    /\ index = 0
    /\ filename = <<>>
    /\ colorInput = 0
    /\ stdout = ""
    /\ status = 0
    /\ returncode = 0
    /\ cr2header = {}
    /\ hdu = NoHdu
    /\ dest = <<>>
    /\ log = <<>>
    /\ written = {}
    /\ named = FALSE
    /\ handle = "none"

\* the __main__ block, lines 493-522: the usage text and SystemExit for a
\* missing or non-integer argument, the ERROR line and SystemExit for a colour
\* that is no key of colors, the cr2fits object otherwise.  raise SystemExit
\* carries no code, so the interpreter exits with status 0
Main ==
    /\ pc = "main"
    /\ LET args == ParseArgs(argv)
       IN  IF ~args.ok
           THEN /\ stdout' = "usage"
                /\ status' = 0
                /\ pc' = "exit"
                /\ UNCHANGED <<filename, colorInput>>
           ELSE IF ~colorState(args.colorInput)
           THEN /\ stdout' = "ERROR"
                /\ status' = 0
                /\ pc' = "exit"
                /\ UNCHANGED <<filename, colorInput>>
           ELSE /\ filename' = args.cr2FileName
                /\ colorInput' = args.colorInput
                /\ pc' = "read_cr2"
                /\ UNCHANGED <<stdout, status>>
    /\ UNCHANGED <<py2, fh, nf, im, ch, netVars, fileVars,
                   argv, returncode, cr2header,
                   hdu, disk, dest, log, written>>

\* cr2fits.read_cr2: dcraw runs to its end; check_output raises when it exited
\* nonzero, and the uncaught exception ends the script with status 1
ReadCr2 ==
    /\ pc = "read_cr2"
    /\ \E rc \in {0, 1}, o \in DcrawStreams :
          LET r == check_output(rc, o)
          IN  /\ returncode' = rc
              /\ fh' = IF r.ok THEN r.out ELSE fh
              /\ pc' = IF r.ok THEN "read_exif" ELSE "Traceback"
              /\ status' = IF r.ok THEN status ELSE 1
    /\ log' = Append(log, "read_cr2")
    /\ UNCHANGED <<py2, nf, im, ch, netVars, fileVars,
                   argv, filename, colorInput,
                   stdout, cr2header, hdu, disk, dest, written>>

\* cr2fits.read_exif: the exit status of dcraw -i -v is not looked at; a label
\* missing from its output raises AttributeError
ReadExif ==
    /\ pc = "read_exif"
    /\ cr2header' \in ExifOutputs
    /\ pc' = IF cr2header' = ExifLabels THEN "read_pbm" ELSE "Traceback"
    /\ status' = IF cr2header' = ExifLabels THEN status ELSE 1
    /\ log' = Append(log, "read_exif")
    /\ UNCHANGED <<py2, fh, nf, im, ch, netVars, fileVars,
                   argv, filename, colorInput,
                   stdout, returncode, hdu, disk, dest, written>>

\* cr2fits.read_pbm: NetpbmFile(self.pbm_bytes).asarray()
ReadPbm ==
    /\ pc = "read_pbm"
    /\ nf' = NetpbmFile(fh)
    /\ im' = IF nf'.ok THEN read_data(nf', fh, py2) ELSE NoArray
    /\ pc' = IF im'.ok THEN "get_color" ELSE "Traceback"
    /\ status' = IF im'.ok THEN status ELSE 1
    /\ log' = Append(log, "read_pbm")
    /\ UNCHANGED <<py2, fh, ch, netVars, fileVars,
                   argv, filename, colorInput, stdout,
                   returncode, cr2header, hdu, disk, dest, written>>

\* convert(), lines 482-485: the whole array for colour 3, get_color otherwise
Channel ==
    /\ pc = "get_color"
    /\ ch' = IF colorInput = 3 THEN im ELSE get_color(im, colorInput)
    /\ pc' = IF ch'.ok THEN "create_fits" ELSE "Traceback"
    /\ status' = IF ch'.ok THEN status ELSE 1
    /\ log' = Append(log, "get_color")
    /\ UNCHANGED <<py2, fh, nf, im, netVars, fileVars,
                   argv, filename, colorInput,
                   stdout, returncode, cr2header, hdu, disk, dest, written>>

\* cr2fits.create_fits
CreateFits ==
    /\ pc = "create_fits"
    /\ hdu' = [data |-> ch, FILTER |-> colors(colorInput), fields |-> cr2header]
    /\ pc' = "_generate_destination"
    /\ log' = Append(log, "create_fits")
    /\ UNCHANGED <<py2, fh, nf, im, ch, netVars, fileVars,
                   argv, filename, colorInput,
                   stdout, status, returncode, cr2header, disk, dest, written>>

\* dest = self._generate_destination(self.filename, self.colorInput)
GenerateDestination ==
    /\ pc = "_generate_destination"
    /\ dest' = generate_destination(filename, colorInput, disk)
    /\ pc' = "write_fits"
    /\ log' = Append(log, "_generate_destination")
    /\ UNCHANGED <<py2, fh, nf, im, ch, netVars, fileVars,
                   argv, filename, colorInput,
                   stdout, status, returncode, cr2header, hdu, disk, written>>

\* cr2fits.write_fits: hdu.writeto(destination) creates the file, and raises
\* OSError when a file of that name exists or the file cannot be made
WriteFits ==
    /\ pc = "write_fits"
    /\ \E writable \in BOOLEAN :
          IF writable /\ dest \notin disk
          THEN /\ disk' = disk \cup {dest}
               /\ written' = written \cup {dest}
               /\ pc' = "done"
               /\ status' = 0
          ELSE /\ pc' = "Traceback"
               /\ status' = 1
               /\ UNCHANGED <<disk, written>>
    /\ log' = Append(log, "write_fits")
    /\ UNCHANGED <<py2, fh, nf, im, ch, netVars, fileVars,
                   argv, filename, colorInput,
                   stdout, returncode, cr2header, hdu, dest>>

NextConvert ==
    \/ Main
    \/ ReadCr2
    \/ ReadExif
    \/ ReadPbm
    \/ Channel
    \/ CreateFits
    \/ GenerateDestination
    \/ WriteFits

SpecConvert == InitConvert /\ [][NextConvert]_vars

\* ------------------------------------- read_pbm and the file it opens
InitReadPbm ==
    /\ fh \in Streams
    /\ named \in BOOLEAN
    /\ py2 \in BOOLEAN
    /\ pc = "call"
    /\ handle = "none"
    /\ nf = NoInstance
    /\ im = NoArray
    /\ ch = NoArray
    /\ out = <<>>
    /\ nf2 = NoInstance
    /\ im2 = NoArray
    /\ index = 0
    /\ argv = <<>>
    /\ filename = <<>>
    /\ colorInput = 0
    /\ stdout = ""
    /\ status = 0
    /\ returncode = 0
    /\ cr2header = {}
    /\ hdu = NoHdu
    /\ disk = {}
    /\ dest = <<>>
    /\ log = <<>>
    /\ written = {}

\* NetpbmFile.__init__, lines 96-100: an object with seek is used as it is,
\* anything else is a name and the file is opened here
OpenFile ==
    /\ pc = "call"
    /\ handle' = IF named THEN "open" ELSE handle
    /\ pc' = "header"
    /\ UNCHANGED <<py2, fh, nf, im, ch, netVars, convVars, named>>

\* NetpbmFile.__init__, lines 102-112: the header is read; the ValueError is
\* raised with self._fh as it is
ReadHeader ==
    /\ pc = "header"
    /\ nf' = NetpbmFile(fh)
    /\ pc' = IF nf'.ok THEN "asarray" ELSE "ValueError"
    /\ UNCHANGED <<py2, fh, im, ch, netVars, convVars, fileVars>>

\* read_pbm, line 379: .asarray() on the new instance, and the return.  No
\* close() is called and no with block is used: on the return the instance is
\* garbage, and whether its file has been finalized by then is up to the
\* interpreter; an exception out of _read_data keeps the instance alive in
\* its traceback
ReadArray ==
    /\ pc = "asarray"
    /\ im' = read_data(nf, fh, py2)
    /\ IF im'.ok
       THEN /\ pc' = "returned"
            /\ \E finalized \in BOOLEAN :
                  handle' = IF finalized /\ handle = "open" THEN "closed"
                            ELSE handle
       ELSE /\ pc' = "Error"
            /\ UNCHANGED handle
    /\ UNCHANGED <<py2, fh, nf, ch, netVars, convVars, named>>

NextReadPbm == OpenFile \/ ReadHeader \/ ReadArray

SpecReadPbm == InitReadPbm /\ [][NextReadPbm]_vars

\* -------------------------------------------------- claims on NetpbmFile
Payload0 == SubSeq(fh, Len(nf.header) + 1, Len(fh))

IsBinaryVariant ==
    nf.magicnum \in {<<80, 52>>, <<80, 53>>, <<80, 54>>, bP7}

\* C1: for every buffer decoded from a binary-variant stream (P4, P5, P6 or
\* P7/PAM), writing the instance and decoding the written bytes again yields
\* the same width, height, depth, maxval and the same sample sequence.
C1_RoundTrip ==
    (pc = "readback" /\ IsBinaryVariant) =>
        /\ nf2.ok /\ im2.ok
        /\ nf2.width = nf.width
        /\ nf2.height = nf.height
        /\ nf2.depth = nf.depth
        /\ nf2.maxval = nf.maxval
        /\ im2.data = im.data

\* the round trip of C1 for the streams the serializer inverts: every
\* binary-variant stream of depth 1, and every one whose maxval is not 1
RoundTripUnpackedOrGray ==
    (pc = "readback" /\ IsBinaryVariant /\ (nf.depth = 1 \/ nf.maxval # 1)) =>
        /\ nf2.ok /\ im2.ok
        /\ nf2.width = nf.width
        /\ nf2.height = nf.height
        /\ nf2.depth = nf.depth
        /\ nf2.maxval = nf.maxval
        /\ im2.data = im.data

StartsP7Newline ==
    Len(fh) >= 3 /\ fh[1] = 80 /\ fh[2] = 55 /\ fh[3] = 10

StartsP1toP6 == Len(fh) >= 2 /\ fh[1] = 80 /\ fh[2] \in 49..54

StartsOther ==
    Len(fh) < 2 \/ ~(fh[1] = 80 /\ fh[2] \in 49..55)

\* C2: a stream starting 'P7' newline is accepted only through the PAM
\* grammar, with HEIGHT, WIDTH, DEPTH and MAXVAL all present before ENDHDR; a
\* stream starting P1..P6 is accepted only through the classic grammar; a
\* stream with other leading two bytes, or shorter than 7 bytes, is rejected
\* with the format error (ValueError) and no instance field is set.
C2_GrammarSelection ==
    pc # "start" =>
        /\ (StartsP7Newline /\ nf.ok) =>
              /\ nf.grammar = "pam"
              /\ \A key \in {bHEIGHT, bWIDTH, bDEPTH, bMAXVAL} :
                    IsSubstring(key \o <<32>>, nf.header)
              /\ SubSeq(nf.header, Len(nf.header) - Len(bENDHDR) + 1,
                        Len(nf.header)) = bENDHDR
              /\ StartsWith(fh, 1, nf.header)
        /\ (StartsP1toP6 /\ nf.ok) => nf.grammar = "pnm"
        /\ (StartsOther \/ Len(fh) < 7) =>
              /\ pc = "ValueError"
              /\ nf = NoInstance

\* C2's case: a 'P7' newline stream has been accepted
C2_Witness ==
    /\ pc = "open"
    /\ StartsP7Newline
    /\ nf.grammar = "pam"
    /\ nf.depth = 4

\* C7: for a binary stream with maxval 1, width w and height h, each row takes
\* ceil(w/8) payload bytes, the sample at row r, column c is bit 7-(c mod 8) of
\* payload byte r*ceil(w/8) + (c div 8), and the result has exactly h rows of
\* w samples, each 0 or 1.
C7_Unpack1Bit ==
    (pc = "decoded" /\ nf.maxval = 1 /\ ~IsSubstring(nf.magicnum, bP1P2P3)) =>
        LET w == nf.width
            h == nf.height
            w8 == (w + 7) \div 8
        IN  /\ Len(im.data) = h * w
            /\ im.shape[1] = h
            /\ im.shape[2] = w
            /\ \A r \in 0..(h - 1) : \A c \in 0..(w - 1) :
                  /\ r * w8 + (c \div 8) + 1 <= Len(Payload0)
                  /\ im.data[r * w + c + 1] =
                        (Payload0[r * w8 + (c \div 8) + 1]
                             \div Pow2(7 - (c % 8))) % 2

\* what holds of the 1-bit branch: under Python 3, a P4 stream whose payload
\* is exactly h rows of ceil(w/8) bytes decodes as C7 says
Unpack1BitOneFrame ==
    (/\ pc = "decoded" /\ ~py2 /\ nf.magicnum = <<80, 52>>
     /\ Len(Payload0) = nf.height * ((nf.width + 7) \div 8)) =>
        /\ im.shape = <<nf.height, nf.width>>
        /\ \A r \in 0..(nf.height - 1) : \A c \in 0..(nf.width - 1) :
              im.data[r * nf.width + c + 1] =
                  (Payload0[r * ((nf.width + 7) \div 8) + (c \div 8) + 1]
                       \div Pow2(7 - (c % 8))) % 2

\* C8: for a stream with magic 'P7 332' every payload byte b decodes to the
\* triple (36*(b div 32), 36*((b div 4) mod 8), 85*(b mod 4)), each in 0..255,
\* and the decoded buffer has shape height x width x 3.
C8_Rgb332 ==
    (pc \in {"decoded", "Error"} /\ nf.magicnum = bP7_332
       /\ Len(Payload0) >= nf.width * nf.height) =>
        /\ im.ok
        /\ im.shape = <<nf.height, nf.width, 3>>
        /\ \A k \in 1..(nf.width * nf.height) :
              LET b == Payload0[k]
              IN  /\ im.data[3 * k - 2] = 36 * (b \div 32)
                  /\ im.data[3 * k - 1] = 36 * ((b \div 4) % 8)
                  /\ im.data[3 * k] = 85 * (b % 4)
                  /\ \A j \in 0..2 : im.data[3 * k - j] \in 0..255

\* what holds of the 'P7 332' branch: C8 for a max-value field in 2..255
Rgb332EightBit ==
    (pc \in {"decoded", "Error"} /\ nf.magicnum = bP7_332
       /\ nf.maxval \in 2..255 /\ Len(Payload0) >= nf.width * nf.height) =>
        /\ im.ok
        /\ im.shape = <<nf.height, nf.width, 3>>
        /\ \A k \in 1..(nf.width * nf.height) :
              LET b == Payload0[k]
              IN  /\ im.data[3 * k - 2] = 36 * (b \div 32)
                  /\ im.data[3 * k - 1] = 36 * ((b \div 4) % 8)
                  /\ im.data[3 * k] = 85 * (b % 4)

\* C9: for a decoded buffer of depth d in {3, 4} and an index i < d, get_color
\* returns a height x width buffer whose value at every pixel is sample i of
\* that pixel of the input.
C9_ChannelExtraction ==
    (pc \in {"extracted", "IndexError"} /\ nf.depth \in {3, 4}
       /\ index < nf.depth) =>
        /\ ch.ok
        /\ ch.shape = <<nf.height, nf.width>>
        /\ Len(ch.data) = nf.height * nf.width
        /\ \A k \in 1..(nf.height * nf.width) :
              ch.data[k] = im.data[(k - 1) * nf.depth + index + 1]

\* what holds of get_color: C9 for a buffer that holds one frame
ChannelExtractionOneFrame ==
    (pc \in {"extracted", "IndexError"} /\ nf.depth \in {3, 4}
       /\ index < nf.depth /\ im.shape = <<nf.height, nf.width, nf.depth>>) =>
        /\ ch.ok
        /\ ch.shape = <<nf.height, nf.width>>
        /\ \A k \in 1..(nf.height * nf.width) :
              ch.data[k] = im.data[(k - 1) * nf.depth + index + 1]

\* C10: for a decoded buffer of depth d and a channel index i >= d, channel
\* extraction fails with the range error (IndexError) and returns no buffer.
C10_IndexOutOfRange ==
    (pc \in {"extracted", "IndexError"} /\ index >= nf.depth) =>
        /\ pc = "IndexError"
        /\ ~ch.ok

\* what holds of get_color: C10 for a buffer that holds one frame
IndexOutOfRangeOneFrame ==
    (pc \in {"extracted", "IndexError"} /\ index >= nf.depth
       /\ Len(im.data) = nf.height * nf.width * nf.depth) =>
        pc = "IndexError"

\* C11: parsing and decoding a stream whose max-value field is 0 or greater
\* than 65535 fails with the format error; no buffer is returned for a stream
\* whose max-value lies outside 1..65535.
C11_MaxvalValidation ==
    (nf.ok /\ nf.maxval \notin 1..65535) =>
        /\ pc \in {"open", "Error"}
        /\ ~im.ok

\* what the decoder does with the max-value field: it only selects the sample
\* width, one byte below 256 and two bytes from 256 on
MaxvalSelectsSampleWidth ==
    (pc = "decoded" /\ nf.maxval # 1) =>
        im.dtype = IF nf.maxval < U1Limit THEN "u1" ELSE ">u2"

IsAscii == IsSubstring(nf.magicnum, bP1P2P3)

\* the payload holds fewer bytes or tokens than the header asks for (stated
\* for ASCII, P4, 8-bit and 16-bit streams)
ShortPayload ==
    LET pixels == nf.width * nf.height
        samples == pixels * (IF nf.magicnum = bP7_332 THEN 1 ELSE nf.depth)
    IN  IF IsAscii THEN Len(Split(Payload0, 1)) < samples
        ELSE IF nf.magicnum = <<80, 52>>
             THEN Len(Payload0) < nf.height * ((nf.width + 7) \div 8)
        ELSE IF nf.maxval = 1 THEN FALSE
        ELSE Len(Payload0) < samples * (IF nf.maxval < 256 THEN 1 ELSE 2)

\* C13: for every variant and every payload length, decoding either fails or
\* returns a buffer of exactly width*height*depth samples; a payload with
\* fewer bytes or tokens than required, the empty one included, always fails,
\* and a longer payload never yields more than width*height*depth samples.
C13_SampleCount ==
    pc \in {"decoded", "Error"} =>
        /\ im.ok => Len(im.data) = nf.width * nf.height * nf.depth
        /\ ShortPayload => ~im.ok

\* C13 for the streams that do not go through the 1-bit branch: the ASCII
\* variants and the binary ones with a max-value other than 1
SampleCountUnpacked ==
    (pc \in {"decoded", "Error"} /\ (IsAscii \/ nf.maxval # 1)) =>
        /\ im.ok => Len(im.data) = nf.width * nf.height * nf.depth
        /\ ShortPayload => ~im.ok

\* the offset of the byte after the single whitespace byte that follows the
\* last numeric field of a classic header: two fields for P1 and P4, three
\* for the others
FieldsEnd(s) ==
    LET a == SkipDigits(s, SkipSpace(s, 3))
        b == SkipDigits(s, SkipSpace(s, a))
    IN  IF s[2] \in {49, 52} THEN b ELSE SkipDigits(s, SkipSpace(s, b))

IsBinaryClassic ==
    nf.ok /\ nf.magicnum \in {<<80, 52>>, <<80, 53>>, <<80, 54>>}

NoCommentInHeader == \A i \in 1..FieldsEnd(fh) : fh[i] # 35

\* C14: for a P4, P5 or P6 stream whose header holds no comment line, the
\* header length _read_pnm_header records, which is the payload offset of
\* _read_data, is the offset of the byte after the single whitespace byte
\* that follows the last numeric field, whatever the payload holds; no payload
\* byte is taken as part of the header.
C14_PayloadOffset ==
    (IsBinaryClassic /\ NoCommentInHeader) => Len(nf.header) = FieldsEnd(fh)

\* C14 for the payloads whose first byte after any leading whitespace is not
\* '#'
PayloadOffsetWithoutHash ==
    (/\ IsBinaryClassic /\ NoCommentInHeader
     /\ LET q == SkipSpace(fh, FieldsEnd(fh) + 1)
        IN  q > Len(fh) \/ fh[q] # 35) =>
        Len(nf.header) = FieldsEnd(fh)

\* ---------------------------------- claims on the script and convert()
Started(step) == \E k \in 1..Len(log) : log[k] = step

\* C3: the steps of convert() start in the order read_cr2, read_exif,
\* read_pbm, get_color, create_fits, _generate_destination, write_fits, each
\* only after every earlier step succeeded; parsing never starts when the
\* dcraw run of read_cr2 exited nonzero; and whenever a step before write_fits
\* has failed, the script has created no file.
C3_StepOrdering ==
    /\ Len(log) <= Len(Steps)
    /\ log = SubSeq(Steps, 1, Len(log))
    /\ Started("read_exif") => returncode = 0
    /\ Started("read_pbm") => (returncode = 0 /\ cr2header = ExifLabels)
    /\ returncode # 0 => ~Started("read_pbm")
    /\ Started("get_color") => im.ok
    /\ Started("create_fits") => ch.ok
    /\ Started("_generate_destination") => hdu.data = ch
    /\ Started("write_fits") => dest # <<>>
    /\ (pc = "Traceback" /\ ~Started("write_fits")) => written = {}
    /\ written # {} => (log = Steps /\ written = {dest})

\* C3's case: dcraw exited nonzero in read_cr2 and the script ended there
C3_Witness ==
    /\ pc = "Traceback"
    /\ returncode # 0
    /\ log = <<"read_cr2">>
    /\ written = {}
    /\ named = FALSE
    /\ handle = "none"

\* the second case of C3: the Netpbm parse failed and the script ended there
ParseFailedNoFile ==
    /\ pc = "Traceback"
    /\ log = SubSeq(Steps, 1, 3)
    /\ written = {}
    /\ named = FALSE
    /\ handle = "none"

InvalidArgs ==
    \/ Len(argv) < 3
    \/ ~IntArg(argv[3]).ok
    \/ IntArg(argv[3]).value \notin 0..3

\* C4: invoked with fewer than two arguments, with a channel index that is no
\* integer, or with an integer index outside {0,1,2,3}, the script prints a
\* usage or error message, ends with a nonzero exit status, and never starts
\* the conversion: no subprocess is run and no file is written.
C4_ArgumentValidation ==
    (pc # "main" /\ InvalidArgs) =>
        /\ pc = "exit"
        /\ stdout \in {"usage", "ERROR"}
        /\ status # 0
        /\ log = <<>>
        /\ written = {}
    /\ named = FALSE
    /\ handle = "none"

\* what the script does for the arguments of C4: the message is printed and
\* no step of the conversion starts, with the exit status 0 of a SystemExit
\* that carries no code
ArgumentValidationStatusZero ==
    (pc # "main" /\ InvalidArgs) =>
        /\ pc = "exit"
        /\ stdout \in {"usage", "ERROR"}
        /\ status = 0
        /\ log = <<>>
        /\ written = {}
    /\ named = FALSE
    /\ handle = "none"

\* the k-th name of the sequence <stem>-<C>.fits, <stem>-<C>-1.fits, ...
Candidate(k) ==
    IF k = 0 THEN BaseName(filename, colorInput)
    ELSE Numbered(filename, colorInput, k)

FreeCandidates == {k \in 0..(RetryStop - 1) : Candidate(k) \notin disk}

\* C5: the name _generate_destination returns is the first name of the
\* sequence <stem>-<C>.fits, <stem>-<C>-1.fits, <stem>-<C>-2.fits, ... that
\* names no existing file; it never names an existing file; and when every
\* candidate up to the retry bound exists, no name is returned.
C5_DestinationCollision ==
    pc = "write_fits" =>
        /\ FreeCandidates # {}
        /\ dest \notin disk
        /\ \E k \in FreeCandidates :
              /\ dest = Candidate(k)
              /\ \A j \in FreeCandidates : k <= j

\* the part of C5 the loop keeps: while a candidate is free, the first free
\* one is returned
FirstFreeCandidate ==
    (pc = "write_fits" /\ FreeCandidates # {}) =>
        /\ dest \notin disk
        /\ \E k \in FreeCandidates :
              /\ dest = Candidate(k)
              /\ \A j \in FreeCandidates : k <= j

\* the input name without the text from its last '.' on
StripExtension(name) ==
    LET dots == {i \in 1..Len(name) : name[i] = 46}
    IN  IF dots = {} THEN name
        ELSE SubSeq(name, 1, (CHOOSE i \in dots : \A j \in dots : j <= i) - 1)

\* "-R.fits", "-G.fits", "-B.fits", "-Raw.fits"
ClaimedSuffix(k) ==
    CASE k = 0 -> <<45, 82>> \o bFits
      [] k = 1 -> <<45, 71>> \o bFits
      [] k = 2 -> <<45, 66>> \o bFits
      [] k = 3 -> <<45, 82, 97, 119>> \o bFits

\* C6: for every input name and every channel index in {0,1,2,3}, the base
\* name _generate_destination produces is the input name with only the text
\* from its last '.' on removed, every other character kept, followed by
\* '-R.fits', '-G.fits', '-B.fits' or '-Raw.fits' for index 0, 1, 2, 3.
C6_OutputNaming ==
    (pc = "write_fits" /\ disk = {}) =>
        dest = StripExtension(filename) \o ClaimedSuffix(colorInput)

\* the names for which C6's base name is the one produced: one '.', that of
\* the extension, and a colour channel
OutputNamingOneDot ==
    (pc = "write_fits" /\ disk = {} /\ colorInput # 3
        /\ Len(SplitDot(filename)) = 2) =>
        dest = StripExtension(filename) \o ClaimedSuffix(colorInput)

\* the raw clause of C9: for colour 3 the array handed to the FITS writer is
\* the decoded array
RawPassthrough ==
    (Started("create_fits") /\ colorInput = 3) => hdu.data = im

\* ------------------------------------------------- claims on read_pbm
\* C12: every file NetpbmFile opens itself from a filename is closed on every
\* exit path of the call: the return, the failure of header parsing inside
\* __init__, and the failure of payload decoding inside asarray(); no
\* execution ends with such a file still open.
C12_ResourceRelease ==
    pc \in {"returned", "ValueError", "Error"} => handle # "open"

\* what holds of the handle: a file object given by the caller is never
\* opened or closed by the parser, and a file the parser opened is still open
\* on both failure paths
HandleKeptOpenOnFailure ==
    /\ ~named => handle = "none"
    /\ (named /\ pc \in {"ValueError", "Error"}) => handle = "open"
====
